---------------------------- MODULE Spec2Model ----------------------------
(***************************************************************************)
(* talib-mcp-server: technical-analysis indicators (rsi, macd, ema, sma,   *)
(* bbands) behind a bearer-token middleware.                               *)
(*                                                                         *)
(* The repository holds two variants of the application package:           *)
(*   "app"              src/app/*.py, whose numerical backend is the       *)
(*                      in-file MockTALib;                                 *)
(*   "talib_mcp_server" src/talib-mcp-server/app/*.py, whose backend is    *)
(*                      the imported talib library.                        *)
(* Both are modelled; `variant' says which package is the deployed one.    *)
(***************************************************************************)
EXTENDS Integers, Sequences, FiniteSets, TLC

VARIABLES
    variant,    \* which app package is running
    api_key,    \* BearerAuthMiddleware._api_key
    mode,       \* "http": the call arrives through the middleware; "direct": the function is called
    auth,       \* the request's Authorization header (http mode)
    call,       \* the indicator call: function name and arguments
    pc,         \* "dispatch" -> "tool" -> "done"
    response,   \* what dispatch answered
    forwarded,  \* dispatch awaited call_next(request)
    outcome,    \* what the indicator function did: return value or exception, and its steps
    config,     \* what the middleware is constructed from: the api_key argument and os.environ
    log,        \* the indicator calls completed so far in this process, with their outcomes
    reqs        \* the requests in flight through one middleware instance

vars == <<variant, api_key, mode, auth, call, pc, response, forwarded, outcome, config, log, reqs>>

(***************************************************************************)
(* Bounds of the model.                                                    *)
(***************************************************************************)
MaxLen == 3        \* longest enumerated price list
MaxTok == 2        \* longest enumerated bearer token
MaxCalls == 3      \* indicator calls made one after another in one process
MaxReq == 2        \* requests in flight through the middleware at once

(***************************************************************************)
(* Python values.  A number is kept as twice its value, so that 2.5 and    *)
(* 0.5 are representable: t is the Python type, twice = 2 * value.         *)
(***************************************************************************)
PyInt(n) == [t |-> "int", twice |-> 2 * n]
PyFloat(n2) == [t |-> "float", twice |-> n2]
PyBool(b) == [t |-> "bool", twice |-> IF b THEN 2 ELSE 0]
PyStr == [t |-> "str", twice |-> 0]
PyNone == [t |-> "NoneType", twice |-> 0]

\* isinstance(p, (int, float)): bool is a subclass of int
IsIntOrFloat(p) == p.t \in {"int", "float", "bool"}

\* the value is a whole number
IsIntegral(p) == p.twice % 2 = 0

PyList(items) == [t |-> "list", items |-> items]
PyTuple(items) == [t |-> "tuple", items |-> items]
NotAList == [t |-> "NoneType", items |-> <<>>]

\* len(prices)
PyLen(prices) == Len(prices.items)

(***************************************************************************)
(* Exceptions and steps.                                                   *)
(***************************************************************************)
NoExc == [kind |-> "none", msg |-> ""]
ValueError(msg) == [kind |-> "ValueError", msg |-> msg]
Raised(e) == e.kind # "none"


(***************************************************************************)
(* Validation helpers.  v is the variant: the two packages check the same  *)
(* conditions and differ in the messages.                                  *)
(***************************************************************************)
_validate_prices(v, prices) ==
    IF v = "app"
    THEN IF prices.t # "list" \/ PyLen(prices) = 0
         THEN ValueError("'prices' must be a non-empty list")
         ELSE IF ~(\A i \in DOMAIN prices.items : IsIntOrFloat(prices.items[i]))
         THEN ValueError("All price values must be numeric")
         ELSE NoExc
    ELSE IF prices.t # "list"
         THEN ValueError("'prices' must be a list of floats")
         ELSE IF PyLen(prices) = 0
         THEN ValueError("'prices' list must not be empty")
         ELSE IF ~(\A i \in DOMAIN prices.items : IsIntOrFloat(prices.items[i]))
         THEN ValueError("All items in 'prices' must be numeric (int | float)")
         ELSE NoExc

\* a _validate_positive that lets zero through: value < 0 in place of value <= 0
_validate_positive_lt(value, name) ==
    IF value.twice < 0 THEN ValueError(name \o " must be positive") ELSE NoExc

\* if value <= 0: raise ValueError(f"{name} must be positive")
_validate_positive(value, name) ==
    IF value.twice <= 0 THEN ValueError(name \o " must be positive") ELSE NoExc

\* a _validate_period that is off by one: period >= len(prices) in place of period > len(prices)
_validate_period_ge(v, period, prices) ==
    IF period.twice <= 0 THEN ValueError("period must be positive")
    ELSE IF period.twice >= 2 * PyLen(prices)
    THEN ValueError("period cannot exceed length of prices")
    ELSE NoExc

\* _validate_positive(period, "period"); if period > len(prices): raise
_validate_period(v, period, prices) ==
    IF Raised(_validate_positive(period, "period"))
    THEN _validate_positive(period, "period")
    ELSE IF period.twice > 2 * PyLen(prices)
    THEN ValueError(IF v = "app" THEN "period cannot exceed length of prices"
                    ELSE "'period' cannot be greater than length of 'prices'")
    ELSE NoExc

\* macd of src/app: if fast >= slow: raise ValueError
_validate_fast_slow(fast, slow) ==
    IF fast.twice >= slow.twice
    THEN ValueError("fast period must be less than slow period")
    ELSE NoExc

(***************************************************************************)
(* numpy arrays of floats.  A float is a fixed-point integer in units of   *)
(* 1/Scale; NaN is a value of its own.                                     *)
(***************************************************************************)
Scale == 2520

NaN == [nan |-> TRUE, x |-> 0]
Float(x) == [nan |-> FALSE, x |-> x]

\* np.array(prices, dtype=float)
np_array(prices) ==
    [i \in DOMAIN prices.items |-> Float((prices.items[i].twice * Scale) \div 2)]

\* np.full(len(prices), np.nan)
np_full_nan(n) == [i \in 1..n |-> NaN]

\* the "no value" marker of the returned lists, and a returned float
None == [null |-> TRUE, x |-> 0]
Num(x) == [null |-> FALSE, x |-> x]

\* a _to_list that leaves the NaN entries out instead of replacing them
RECURSIVE _to_list_dropping(_)
_to_list_dropping(arr) ==
    IF arr = <<>> THEN <<>>
    ELSE IF Head(arr).nan THEN _to_list_dropping(Tail(arr))
    ELSE <<Num(Head(arr).x)>> \o _to_list_dropping(Tail(arr))

\* [None if np.isnan(v) else float(v) for v in arr]
_to_list(arr) == [i \in DOMAIN arr |-> IF arr[i].nan THEN None ELSE Num(arr[i].x)]

(***************************************************************************)
(* MockTALib, the backend of src/app/indicators.py: every function returns *)
(* arrays of NaN as long as the input.                                     *)
(***************************************************************************)
MockTALib_RSI(prices_arr, timeperiod) ==
    [exc |-> NoExc, out |-> <<np_full_nan(Len(prices_arr))>>]

MockTALib_MACD(prices_arr, fastperiod, slowperiod, signalperiod) ==
    [exc |-> NoExc,
     out |-> <<np_full_nan(Len(prices_arr)), np_full_nan(Len(prices_arr)),
               np_full_nan(Len(prices_arr))>>]

MockTALib_EMA(prices_arr, timeperiod) ==
    [exc |-> NoExc, out |-> <<np_full_nan(Len(prices_arr))>>]

MockTALib_SMA(prices_arr, timeperiod) ==
    [exc |-> NoExc, out |-> <<np_full_nan(Len(prices_arr))>>]

MockTALib_BBANDS(prices_arr, timeperiod, nbdevup, nbdevdn) ==
    [exc |-> NoExc,
     out |-> <<np_full_nan(Len(prices_arr)), np_full_nan(Len(prices_arr)),
               np_full_nan(Len(prices_arr))>>]

(***************************************************************************)
(* talib, the backend of src/talib-mcp-server/app/indicators.py.  The      *)
(* library is imported, not part of the repository; it is modelled from    *)
(* the recurrences the specification fixes (section 4.2), in fixed-point   *)
(* arithmetic.  Integer parameters are required to be whole numbers.       *)
(***************************************************************************)
TypeError(msg) == [kind |-> "TypeError", msg |-> msg]

RECURSIVE SumX(_, _, _)
SumX(a, lo, hi) == IF lo > hi THEN 0 ELSE a[lo].x + SumX(a, lo + 1, hi)

\* sum of the squared deviations from m
RECURSIVE SumSq(_, _, _, _)
SumSq(a, lo, hi, m) ==
    IF lo > hi THEN 0 ELSE (a[lo].x - m) * (a[lo].x - m) + SumSq(a, lo + 1, hi, m)

RECURSIVE IsqrtIn(_, _, _)
IsqrtIn(n, lo, hi) ==
    IF lo >= hi THEN lo
    ELSE LET mid == (lo + hi + 1) \div 2
         IN IF mid * mid <= n THEN IsqrtIn(n, mid, hi) ELSE IsqrtIn(n, lo, mid - 1)

\* floor of the square root of n, for 0 <= n
Isqrt(n) == IsqrtIn(n, 0, 46340)

\* exponential recurrence over a[start..], seeded by the mean of the first p values
RECURSIVE EmaAt(_, _, _, _)
EmaAt(a, p, start, i) ==
    IF i = start + p - 1
    THEN SumX(a, start, i) \div p
    ELSE LET prev == EmaAt(a, p, start, i - 1)
         IN prev + (2 * (a[i].x - prev)) \div (p + 1)

EmaArr(a, p, start) ==
    [i \in DOMAIN a |-> IF i < start + p - 1 THEN NaN ELSE Float(EmaAt(a, p, start, i))]

Gain(a, i) == IF a[i].x > a[i - 1].x THEN a[i].x - a[i - 1].x ELSE 0
Loss(a, i) == IF a[i].x < a[i - 1].x THEN a[i - 1].x - a[i].x ELSE 0

RECURSIVE SumGain(_, _, _)
SumGain(a, lo, hi) == IF lo > hi THEN 0 ELSE Gain(a, lo) + SumGain(a, lo + 1, hi)

RECURSIVE SumLoss(_, _, _)
SumLoss(a, lo, hi) == IF lo > hi THEN 0 ELSE Loss(a, lo) + SumLoss(a, lo + 1, hi)

\* Wilder smoothing of the gains and of the losses, from index p + 1 on
RECURSIVE AvgGain(_, _, _)
AvgGain(a, p, i) ==
    IF i = p + 1 THEN SumGain(a, 2, i) \div p
    ELSE (AvgGain(a, p, i - 1) * (p - 1) + Gain(a, i)) \div p

RECURSIVE AvgLoss(_, _, _)
AvgLoss(a, p, i) ==
    IF i = p + 1 THEN SumLoss(a, 2, i) \div p
    ELSE (AvgLoss(a, p, i - 1) * (p - 1) + Loss(a, i)) \div p

RsiAt(a, p, i) ==
    LET g == AvgGain(a, p, i)
        l == AvgLoss(a, p, i)
    IN IF g + l = 0 THEN 0 ELSE (100 * Scale * g) \div (g + l)

BadInt(q) == ~IsIntegral(q)
IntOf(q) == q.twice \div 2
NotAnInteger == TypeError("an integer is required")

talib_RSI(a, timeperiod) ==
    IF BadInt(timeperiod) THEN [exc |-> NotAnInteger, out |-> <<>>]
    ELSE LET p == IntOf(timeperiod)
         IN [exc |-> NoExc,
             out |-> <<[i \in DOMAIN a |-> IF i <= p THEN NaN ELSE Float(RsiAt(a, p, i))]>>]

talib_SMA(a, timeperiod) ==
    IF BadInt(timeperiod) THEN [exc |-> NotAnInteger, out |-> <<>>]
    ELSE LET p == IntOf(timeperiod)
         IN [exc |-> NoExc,
             out |-> <<[i \in DOMAIN a |->
                          IF i < p THEN NaN ELSE Float(SumX(a, i - p + 1, i) \div p)]>>]

talib_EMA(a, timeperiod) ==
    IF BadInt(timeperiod) THEN [exc |-> NotAnInteger, out |-> <<>>]
    ELSE [exc |-> NoExc, out |-> <<EmaArr(a, IntOf(timeperiod), 1)>>]

talib_MACD(a, fastperiod, slowperiod, signalperiod) ==
    IF BadInt(fastperiod) \/ BadInt(slowperiod) \/ BadInt(signalperiod)
    THEN [exc |-> NotAnInteger, out |-> <<>>]
    ELSE LET f == IntOf(fastperiod)
             s == IntOf(slowperiod)
             g == IntOf(signalperiod)
             first == IF f > s THEN f ELSE s
             line == [i \in DOMAIN a |->
                        IF i < first THEN NaN
                        ELSE Float(EmaAt(a, f, 1, i) - EmaAt(a, s, 1, i))]
             sig == EmaArr(line, g, first)
             hist == [i \in DOMAIN a |->
                        IF line[i].nan \/ sig[i].nan THEN NaN
                        ELSE Float(line[i].x - sig[i].x)]
         IN [exc |-> NoExc, out |-> <<line, sig, hist>>]

talib_BBANDS(a, timeperiod, nbdevup, nbdevdn) ==
    IF BadInt(timeperiod) THEN [exc |-> NotAnInteger, out |-> <<>>]
    ELSE LET p == IntOf(timeperiod)
             mid(i) == SumX(a, i - p + 1, i) \div p
             var(i) == SumSq(a, i - p + 1, i, mid(i)) \div p
             sd(i) == IF var(i) <= 0 THEN 0 ELSE Isqrt(var(i))
             upper == [i \in DOMAIN a |->
                         IF i < p THEN NaN
                         ELSE Float(mid(i) + (nbdevup.twice * sd(i)) \div 2)]
             middle == [i \in DOMAIN a |-> IF i < p THEN NaN ELSE Float(mid(i))]
             lower == [i \in DOMAIN a |->
                         IF i < p THEN NaN
                         ELSE Float(mid(i) - (nbdevdn.twice * sd(i)) \div 2)]
         IN [exc |-> NoExc, out |-> <<upper, middle, lower>>]

(***************************************************************************)
(* The indicator functions.  Each one runs its validations in order and    *)
(* raises at the first that fails; otherwise it calls the backend once and *)
(* converts what the backend returned.  The outcome records the exception  *)
(* or the returned value, and the steps taken.                             *)
(***************************************************************************)
NoValue == [type |-> "none", list |-> <<>>, dict |-> <<>>]
ListValue(l) == [type |-> "list", list |-> l, dict |-> <<>>]
DictValue(d) == [type |-> "dict", list |-> <<>>, dict |-> d]

NotCalled == [kind |-> "none", msg |-> "", value |-> NoValue, steps |-> <<>>]

Check(step, exc) == [step |-> step, exc |-> exc]

FirstRaised(checks) ==
    IF \E i \in DOMAIN checks : Raised(checks[i].exc)
    THEN CHOOSE i \in DOMAIN checks :
            /\ Raised(checks[i].exc)
            /\ \A j \in 1..(i - 1) : ~Raised(checks[j].exc)
    ELSE 0

StepNames(checks, k) == [i \in 1..k |-> checks[i].step]

\* as if the backend were called first and the validations run afterwards
Run_backend_first(checks, backend, b, value) ==
    LET k == FirstRaised(checks)
    IN IF Raised(b.exc)
       THEN [kind |-> b.exc.kind, msg |-> b.exc.msg, value |-> NoValue,
             steps |-> <<backend, "raise">>]
       ELSE IF k > 0
       THEN [kind |-> checks[k].exc.kind, msg |-> checks[k].exc.msg, value |-> NoValue,
             steps |-> <<backend>> \o StepNames(checks, k) \o <<"raise">>]
       ELSE [kind |-> "return", msg |-> "", value |-> value,
             steps |-> <<backend>> \o StepNames(checks, Len(checks)) \o <<"_to_list", "return">>]

\* validate -> backend -> _to_list -> return
Run(checks, backend, b, value) ==
    LET k == FirstRaised(checks)
    IN IF k > 0
       THEN [kind |-> checks[k].exc.kind, msg |-> checks[k].exc.msg, value |-> NoValue,
             steps |-> StepNames(checks, k) \o <<"raise">>]
       ELSE IF Raised(b.exc)
       THEN [kind |-> b.exc.kind, msg |-> b.exc.msg, value |-> NoValue,
             steps |-> StepNames(checks, Len(checks)) \o <<backend, "raise">>]
       ELSE [kind |-> "return", msg |-> "", value |-> value,
             steps |-> StepNames(checks, Len(checks)) \o <<backend, "_to_list", "return">>]

rsi(v, prices, period) ==
    LET b == IF v = "app" THEN MockTALib_RSI(np_array(prices), period)
             ELSE talib_RSI(np_array(prices), period)
    IN Run(<<Check("_validate_prices", _validate_prices(v, prices)),
             Check("_validate_period", _validate_period(v, period, prices))>>,
           "talib.RSI", b, ListValue(_to_list(b.out[1])))

ema(v, prices, period) ==
    LET b == IF v = "app" THEN MockTALib_EMA(np_array(prices), period)
             ELSE talib_EMA(np_array(prices), period)
    IN Run(<<Check("_validate_prices", _validate_prices(v, prices)),
             Check("_validate_period", _validate_period(v, period, prices))>>,
           "talib.EMA", b, ListValue(_to_list(b.out[1])))

sma(v, prices, period) ==
    LET b == IF v = "app" THEN MockTALib_SMA(np_array(prices), period)
             ELSE talib_SMA(np_array(prices), period)
    IN Run(<<Check("_validate_prices", _validate_prices(v, prices)),
             Check("_validate_period", _validate_period(v, period, prices))>>,
           "talib.SMA", b, ListValue(_to_list(b.out[1])))

\* src/app: prices, fast, slow, signal positive, fast < slow, slow <= len(prices)
macd_app(prices, fast, slow, signal) ==
    LET b == MockTALib_MACD(np_array(prices), fast, slow, signal)
    IN Run(<<Check("_validate_prices", _validate_prices("app", prices)),
             Check("_validate_positive", _validate_positive(fast, "fast")),
             Check("_validate_positive", _validate_positive(slow, "slow")),
             Check("_validate_positive", _validate_positive(signal, "signal")),
             Check("fast >= slow", _validate_fast_slow(fast, slow)),
             Check("_validate_period", _validate_period("app", slow, prices))>>,
           "talib.MACD", b,
           DictValue([macd |-> _to_list(b.out[1]),
                      macdsignal |-> _to_list(b.out[2]),
                      macdhist |-> _to_list(b.out[3])]))

macd_talib_mcp_server_misordered(prices, fastperiod, slowperiod, signalperiod) ==
    LET b == talib_MACD(np_array(prices), fastperiod, slowperiod, signalperiod)
    IN Run(<<Check("_validate_prices", _validate_prices("talib_mcp_server", prices)),
             Check("_validate_positive", _validate_positive(fastperiod, "period parameter")),
             Check("_validate_positive", _validate_positive(slowperiod, "period parameter")),
             Check("_validate_positive", _validate_positive(signalperiod, "period parameter"))>>,
           "talib.MACD", b,
           DictValue([macd |-> _to_list(b.out[2]),
                      signal |-> _to_list(b.out[1]),
                      hist |-> _to_list(b.out[3])]))

\* src/talib-mcp-server: prices, then the three periods positive, nothing else
macd_talib_mcp_server(prices, fastperiod, slowperiod, signalperiod) ==
    LET b == talib_MACD(np_array(prices), fastperiod, slowperiod, signalperiod)
    IN Run(<<Check("_validate_prices", _validate_prices("talib_mcp_server", prices)),
             Check("_validate_positive", _validate_positive(fastperiod, "period parameter")),
             Check("_validate_positive", _validate_positive(slowperiod, "period parameter")),
             Check("_validate_positive", _validate_positive(signalperiod, "period parameter"))>>,
           "talib.MACD", b,
           DictValue([macd |-> _to_list(b.out[1]),
                      signal |-> _to_list(b.out[2]),
                      hist |-> _to_list(b.out[3])]))

macd(v, prices, fast, slow, signal) ==
    IF v = "app" THEN macd_app(prices, fast, slow, signal)
    ELSE macd_talib_mcp_server(prices, fast, slow, signal)

bbands_swapped(v, prices, period, upper_dev, lower_dev) ==
    LET b == IF v = "app" THEN MockTALib_BBANDS(np_array(prices), period, upper_dev, lower_dev)
             ELSE talib_BBANDS(np_array(prices), period, upper_dev, lower_dev)
        checks == <<Check("_validate_prices", _validate_prices(v, prices)),
                    Check("_validate_period", _validate_period(v, period, prices)),
                    Check("_validate_positive",
                          _validate_positive(upper_dev, IF v = "app" THEN "upper_dev" ELSE "nbdevup")),
                    Check("_validate_positive",
                          _validate_positive(lower_dev, IF v = "app" THEN "lower_dev" ELSE "nbdevdn"))>>
    IN IF v = "app"
       THEN Run(checks, "talib.BBANDS", b,
                DictValue([upperband |-> _to_list(b.out[3]),
                           middleband |-> _to_list(b.out[2]),
                           lowerband |-> _to_list(b.out[1])]))
       ELSE Run(checks, "talib.BBANDS", b,
                DictValue([upper |-> _to_list(b.out[3]),
                           middle |-> _to_list(b.out[2]),
                           lower |-> _to_list(b.out[1])]))

bbands(v, prices, period, upper_dev, lower_dev) ==
    LET b == IF v = "app" THEN MockTALib_BBANDS(np_array(prices), period, upper_dev, lower_dev)
             ELSE talib_BBANDS(np_array(prices), period, upper_dev, lower_dev)
        checks == <<Check("_validate_prices", _validate_prices(v, prices)),
                    Check("_validate_period", _validate_period(v, period, prices)),
                    Check("_validate_positive",
                          _validate_positive(upper_dev, IF v = "app" THEN "upper_dev" ELSE "nbdevup")),
                    Check("_validate_positive",
                          _validate_positive(lower_dev, IF v = "app" THEN "lower_dev" ELSE "nbdevdn"))>>
    IN IF v = "app"
       THEN Run(checks, "talib.BBANDS", b,
                DictValue([upperband |-> _to_list(b.out[1]),
                           middleband |-> _to_list(b.out[2]),
                           lowerband |-> _to_list(b.out[3])]))
       ELSE Run(checks, "talib.BBANDS", b,
                DictValue([upper |-> _to_list(b.out[1]),
                           middle |-> _to_list(b.out[2]),
                           lower |-> _to_list(b.out[3])]))

(***************************************************************************)
(* The bearer-token middleware (auth.py, the same in both packages).       *)
(* Strings are sequences of characters.                                    *)
(***************************************************************************)
Bearer == <<"B", "e", "a", "r", "e", "r", " ">>
Whitespace == {" ", "\t"}

\* request.headers.get("Authorization"): None or a string
NoHeader == [present |-> FALSE, s |-> <<>>]
Header(s) == [present |-> TRUE, s |-> s]

\* s.startswith(prefix)
startswith(s, prefix) ==
    /\ Len(s) >= Len(prefix)
    /\ SubSeq(s, 1, Len(prefix)) = prefix

\* s.split(" ", 1)[1]: what follows the first space
split_rest(s) ==
    LET i == CHOOSE k \in DOMAIN s : s[k] = " " /\ \A j \in 1..(k - 1) : s[j] # " "
    IN SubSeq(s, i + 1, Len(s))

RECURSIVE lstrip(_)
lstrip(s) == IF s # <<>> /\ Head(s) \in Whitespace THEN lstrip(Tail(s)) ELSE s

RECURSIVE rstrip(_)
rstrip(s) ==
    IF s # <<>> /\ s[Len(s)] \in Whitespace THEN rstrip(SubSeq(s, 1, Len(s) - 1)) ELSE s

\* s.strip()
strip(s) == rstrip(lstrip(s))

\* JSONResponse({"error": "Unauthorized"}, status_code=401)
_unauthorized == [status_code |-> 401, content |-> [error |-> "Unauthorized"]]

NoResponse == [status_code |-> 0, content |-> [error |-> ""]]
\* the response is whatever call_next(request) returns
FromCallNext == [status_code |-> 0, content |-> [error |-> "call_next"]]

\* an optional string: the api_key argument, os.getenv("MCP_API_KEY")
NoStr == [present |-> FALSE, s |-> <<>>]
Str(s) == [present |-> TRUE, s |-> s]

\* api_key or getenv("MCP_API_KEY"): the argument when it is truthy, else the environment's
or_getenv(arg, env) == IF arg.present /\ arg.s # <<>> THEN arg ELSE env

init_raises_on_none(key) == ~key.present

\* if not self._api_key: raise RuntimeError(...)
init_raises(key) == ~key.present \/ key.s = <<>>

RuntimeError(msg) == [kind |-> "RuntimeError", msg |-> msg]

\* get_api_key_or_raise(): the exception, and the returned key
get_api_key_or_raise(env) ==
    IF ~env.present \/ env.s = <<>>
    THEN [exc |-> RuntimeError("MCP_API_KEY environment variable is not set."), key |-> <<>>]
    ELSE [exc |-> NoExc, key |-> env.s]

\* main.py: add_middleware(BearerAuthMiddleware), no api_key argument
FromEnv(env) == [api_key |-> NoStr, MCP_API_KEY |-> env]

\* the token dispatch compares with the key
token_of(a) == strip(split_rest(a.s))

\* BearerAuthMiddleware.dispatch: TRUE when the request goes to call_next
passes(a, key) ==
    IF ~a.present \/ a.s = <<>> \/ ~startswith(a.s, Bearer)
    THEN FALSE
    ELSE token_of(a) = key

(***************************************************************************)
(* Inputs.                                                                 *)
(***************************************************************************)
SeqsUpTo(S, n) == UNION {[1..k -> S] : k \in 0..n}

Variants == {"app", "talib_mcp_server"}

\* list elements: two integers, and a bool, a string and None
Elems == {PyInt(1), PyInt(3), PyBool(TRUE), PyStr, PyNone}

PricesInputs ==
    {PyList(l) : l \in SeqsUpTo(Elems, MaxLen)} \cup {NotAList, PyTuple(<<PyInt(1)>>)}

\* -1 .. MaxLen + 1, and 2.5
Periods == {PyInt(n) : n \in (-1)..(MaxLen + 1)} \cup {PyFloat(5)}
\* the periods tried for macd and bbands: 0, 1, 2, 2.5 and one above every length
FastPeriods == {PyInt(0), PyInt(1), PyInt(2), PyFloat(5)}
SlowPeriods == FastPeriods \cup {PyInt(MaxLen + 1)}
SignalPeriods == {PyInt(0), PyInt(1), PyInt(2), PyFloat(5), PyInt(MaxLen + 1)}
\* -1.0, 0.0, 2.0
Devs == {PyFloat(-2), PyFloat(0), PyFloat(4)}

Call(fn, prices, period, fast, slow, signal, upper_dev, lower_dev) ==
    [fn |-> fn, prices |-> prices, period |-> period, fast |-> fast, slow |-> slow,
     signal |-> signal, upper_dev |-> upper_dev, lower_dev |-> lower_dev]

Call1(fn, prices, period) == Call(fn, prices, period, PyNone, PyNone, PyNone, PyNone, PyNone)

\* sma([1, 2, ..., 10], period=5), the call of test_tool_execution_success
ExampleLen == 10
ExamplePeriod == 5
ExamplePrices == PyList([i \in 1..ExampleLen |-> PyInt(i)])
ExampleCall == Call1("sma", ExamplePrices, PyInt(ExamplePeriod))

Fns == {"rsi", "macd", "ema", "sma", "bbands"}

\* the enumerated calls of one indicator
CallsOf(fn) ==
    [fn : {fn},
     prices : PricesInputs,
     period : IF fn = "macd" THEN {PyNone} ELSE IF fn = "bbands" THEN SlowPeriods ELSE Periods,
     fast : IF fn = "macd" THEN FastPeriods ELSE {PyNone},
     slow : IF fn = "macd" THEN SlowPeriods ELSE {PyNone},
     signal : IF fn = "macd" THEN SignalPeriods ELSE {PyNone},
     upper_dev : IF fn = "bbands" THEN Devs ELSE {PyNone},
     lower_dev : IF fn = "bbands" THEN Devs ELSE {PyNone}]

\* the tool calls carried by the modelled HTTP requests
HttpCalls ==
    {ExampleCall,
     Call1("rsi", PyList(<<>>), PyInt(1)),
     Call("macd", PyList(<<PyInt(1), PyInt(3)>>), PyNone, PyInt(1), PyInt(2), PyInt(1),
          PyNone, PyNone),
     Call1("ema", PyList(<<PyInt(1), PyInt(3)>>), PyInt(2)),
     Call("bbands", PyList(<<PyInt(1), PyInt(3)>>), PyInt(2), PyNone, PyNone, PyNone,
          PyFloat(4), PyFloat(4))}

Alphabet == {"k", "x", " "}
Tokens == SeqsUpTo(Alphabet, MaxTok)
\* __init__ raises when the key is None or empty: a constructed middleware has a non-empty key
Secrets == Tokens \ {<<>>}

AuthHeaders ==
    {NoHeader, Header(<<>>), Header(<<"B", "e", "a", "r", "e", "r">>),
     Header(<<"B", "a", "s", "i", "c", " ", "k">>),
     Header(<<"b", "e", "a", "r", "e", "r", " ", "k">>)}
    \cup {Header(Bearer \o t) : t \in Tokens}

(***************************************************************************)
(* The state machine: one request, or one direct call of an indicator.     *)
(***************************************************************************)
Init ==
    /\ variant \in Variants
    /\ mode \in {"http", "direct"}
    /\ IF mode = "http"
       THEN /\ api_key \in Secrets
            /\ auth \in AuthHeaders
            /\ call \in HttpCalls
            /\ pc = "dispatch"
       ELSE /\ api_key = <<"k">>
            /\ auth = NoHeader
            /\ \/ \E fn \in Fns : call \in CallsOf(fn)
               \/ call = ExampleCall
            /\ pc = "tool"
    /\ response = NoResponse
    /\ forwarded = FALSE
    /\ outcome = NotCalled
    /\ config = FromEnv(Str(api_key))
    /\ log = <<>>
    /\ reqs = <<>>

\* BearerAuthMiddleware.dispatch
dispatch ==
    /\ pc = "dispatch"
    /\ IF passes(auth, api_key)
       THEN /\ forwarded' = TRUE
            /\ response' = FromCallNext
            /\ pc' = "tool"
       ELSE /\ forwarded' = FALSE
            /\ response' = _unauthorized
            /\ pc' = "done"
    /\ UNCHANGED <<variant, api_key, mode, auth, call, outcome, config, log, reqs>>

\* as if the functions shared a result buffer: a call that follows a call of another function
\* finds that call's outcome
Tool_shared_buffer(fn, result) ==
    /\ pc = "tool"
    /\ call.fn = fn
    /\ outcome' = IF log # <<>> /\ log[Len(log)].call.fn # fn
                  THEN log[Len(log)].outcome
                  ELSE result
    /\ pc' = "done"
    /\ UNCHANGED <<variant, api_key, mode, auth, call, response, forwarded, config, log, reqs>>

Tool(fn, result) ==
    /\ pc = "tool"
    /\ call.fn = fn
    /\ outcome' = result
    /\ pc' = "done"
    /\ UNCHANGED <<variant, api_key, mode, auth, call, response, forwarded, config, log, reqs>>

tool_rsi == Tool("rsi", rsi(variant, call.prices, call.period))
tool_macd == Tool("macd", macd(variant, call.prices, call.fast, call.slow, call.signal))
tool_ema == Tool("ema", ema(variant, call.prices, call.period))
tool_sma == Tool("sma", sma(variant, call.prices, call.period))
tool_bbands ==
    Tool("bbands", bbands(variant, call.prices, call.period, call.upper_dev, call.lower_dev))

Next ==
    \/ dispatch
    \/ tool_rsi
    \/ tool_macd
    \/ tool_ema
    \/ tool_sma
    \/ tool_bbands

Spec == Init /\ [][Next]_vars

(***************************************************************************)
(* Several calls, one after another, in one process: the indicator         *)
(* functions are called again and again with arguments the caller chooses. *)
(***************************************************************************)
Series2 == PyList(<<PyInt(1), PyInt(3)>>)
Series3 == PyList(<<PyInt(1), PyInt(3), PyInt(1)>>)

RepeatedCalls ==
    {Call1("sma", Series2, PyInt(2)),
     Call1("sma", Series2, PyInt(3)),
     Call1("ema", Series3, PyInt(2)),
     Call1("rsi", Series3, PyInt(1)),
     Call("macd", Series3, PyNone, PyInt(1), PyInt(2), PyInt(2), PyNone, PyNone),
     Call("bbands", Series2, PyInt(2), PyNone, PyNone, PyNone, PyFloat(4), PyFloat(4))}

InitCalls ==
    /\ variant \in Variants
    /\ mode = "direct"
    /\ api_key = <<"k">>
    /\ config = FromEnv(Str(api_key))
    /\ auth = NoHeader
    /\ call \in RepeatedCalls
    /\ pc = "tool"
    /\ response = NoResponse
    /\ forwarded = FALSE
    /\ outcome = NotCalled
    /\ log = <<>>
    /\ reqs = <<>>

\* the caller has the outcome of one call and makes the next
next_call ==
    /\ pc = "done"
    /\ Len(log) + 1 < MaxCalls
    /\ log' = Append(log, [call |-> call, outcome |-> outcome])
    /\ call' \in RepeatedCalls
    /\ outcome' = NotCalled
    /\ pc' = "tool"
    /\ UNCHANGED <<variant, api_key, mode, auth, response, forwarded, config, reqs>>

NextCalls ==
    \/ tool_rsi
    \/ tool_macd
    \/ tool_ema
    \/ tool_sma
    \/ tool_bbands
    \/ next_call

SpecCalls == InitCalls /\ [][NextCalls]_vars

(***************************************************************************)
(* Concurrent requests through one middleware instance.  dispatch is a     *)
(* coroutine: it decides from the request's header and the key, and on     *)
(* success awaits call_next(request); other requests run while it waits.   *)
(***************************************************************************)
ConcurrentSecrets == {<<"k">>, <<"x">>}
ConcurrentHeaders ==
    {NoHeader, Header(Bearer \o <<"k">>), Header(Bearer \o <<"x">>),
     Header(Bearer \o <<"k", " ">>)}

Request(a) == [auth |-> a, pc |-> "dispatch", response |-> NoResponse, forwarded |-> FALSE]

\* as if dispatch kept the last accepted token on the instance: a request passes while
\* another one is being served downstream
dispatch_decision_shared(rs, i, key) ==
    \/ \E j \in DOMAIN rs : rs[j].pc = "call_next"
    \/ IF ~rs[i].auth.present \/ rs[i].auth.s = <<>> \/ ~startswith(rs[i].auth.s, Bearer)
       THEN FALSE
       ELSE strip(split_rest(rs[i].auth.s)) = key

\* what dispatch reads: the headers of its own request, and self._api_key
dispatch_decision(rs, i, key) == passes(rs[i].auth, key)

InitConcurrent ==
    /\ variant \in Variants
    /\ mode = "http"
    /\ api_key \in ConcurrentSecrets
    /\ config = FromEnv(Str(api_key))
    /\ reqs \in [1..MaxReq -> {Request(a) : a \in ConcurrentHeaders}]
    /\ auth = NoHeader
    /\ call = ExampleCall
    /\ pc = "serving"
    /\ response = NoResponse
    /\ forwarded = FALSE
    /\ outcome = NotCalled
    /\ log = <<>>

\* BearerAuthMiddleware.dispatch for request i, up to its return or its await
dispatch_request(i) ==
    /\ reqs[i].pc = "dispatch"
    /\ reqs' = [reqs EXCEPT ![i] =
                   IF dispatch_decision(reqs, i, api_key)
                   THEN [@ EXCEPT !.forwarded = TRUE, !.pc = "call_next"]
                   ELSE [@ EXCEPT !.response = _unauthorized, !.pc = "done"]]
    /\ UNCHANGED <<variant, api_key, mode, auth, call, pc, response, forwarded, outcome,
                   config, log>>

\* the awaited call_next(request) of request i completes and dispatch returns its response
call_next_returns(i) ==
    /\ reqs[i].pc = "call_next"
    /\ reqs' = [reqs EXCEPT ![i] = [@ EXCEPT !.response = FromCallNext, !.pc = "done"]]
    /\ UNCHANGED <<variant, api_key, mode, auth, call, pc, response, forwarded, outcome,
                   config, log>>

dispatch_some == \E i \in DOMAIN reqs : dispatch_request(i)
call_next_some == \E i \in DOMAIN reqs : call_next_returns(i)

NextConcurrent ==
    \/ dispatch_some
    \/ call_next_some

SpecConcurrent == InitConcurrent /\ [][NextConcurrent]_vars

(***************************************************************************)
(* Startup: the middleware is constructed from its argument and the        *)
(* environment, then serves one request.                                   *)
(***************************************************************************)
OptStrs == {NoStr} \cup {Str(t) : t \in Tokens}
\* the api_key argument: absent, empty, or "k"
KeyArgs == {NoStr, Str(<<>>), Str(<<"k">>)}
Configs == [api_key : KeyArgs, MCP_API_KEY : OptStrs]

InitStartup ==
    /\ variant \in Variants
    /\ mode = "http"
    /\ config \in Configs
    /\ api_key = <<>>
    /\ auth \in AuthHeaders
    /\ call \in HttpCalls
    /\ pc = "construct"
    /\ response = NoResponse
    /\ forwarded = FALSE
    /\ outcome = NotCalled
    /\ log = <<>>
    /\ reqs = <<>>

\* BearerAuthMiddleware.__init__
__init__ ==
    /\ pc = "construct"
    /\ LET key == or_getenv(config.api_key, config.MCP_API_KEY)
       IN /\ api_key' = key.s
          /\ pc' = IF init_raises(key) THEN "RuntimeError" ELSE "dispatch"
    /\ UNCHANGED <<variant, mode, auth, call, response, forwarded, outcome, config, log, reqs>>

NextStartup ==
    \/ __init__
    \/ dispatch
    \/ tool_rsi
    \/ tool_macd
    \/ tool_ema
    \/ tool_sma
    \/ tool_bbands

SpecStartup == InitStartup /\ [][NextStartup]_vars

(***************************************************************************)
(* Vocabulary of the properties.                                           *)
(***************************************************************************)
Done == pc = "done" /\ outcome.kind # "none"
Returned == Done /\ outcome.kind = "return"
InvalidInput == Done /\ outcome.kind = "ValueError"
BackendInvoked == \E i \in DOMAIN outcome.steps :
                     outcome.steps[i] \in {"talib.RSI", "talib.MACD", "talib.EMA",
                                           "talib.SMA", "talib.BBANDS"}

\* the sequences of a returned value: the list itself, or the lists of the mapping
ResultLists ==
    IF outcome.value.type = "list" THEN {outcome.value.list}
    ELSE IF outcome.value.type = "dict"
    THEN {outcome.value.dict[k] : k \in DOMAIN outcome.value.dict}
    ELSE {}

\* a price series as the specification defines it: a non-empty list of numbers
IsNumber(p) == p.t \in {"int", "float"}
NumericSeries(prices) ==
    /\ prices.t = "list"
    /\ PyLen(prices) >= 1
    /\ \A i \in DOMAIN prices.items : IsNumber(prices.items[i])

\* a positive integer
PositiveInteger(q) == IsNumber(q) /\ IsIntegral(q) /\ q.twice > 0
\* a window of the series: a positive integer not above its length
Window(q, prices) == PositiveInteger(q) /\ q.twice <= 2 * PyLen(prices)

SinglePeriodFns == {"rsi", "ema", "sma", "bbands"}

(***************************************************************************)
(* C1: every sequence an indicator returns is as long as the input price   *)
(* series: the list of rsi, ema and sma, and each of the three lists of    *)
(* macd and of bbands.                                                     *)
(***************************************************************************)
C1_SameLength ==
    Returned =>
        /\ ResultLists # {}
        /\ \A l \in ResultLists : Len(l) = PyLen(call.prices)

C1_Witness ==
    /\ Returned
    /\ call.fn = "bbands"
    /\ variant = "talib_mcp_server"
    /\ Cardinality(ResultLists) = 3
    /\ PyLen(call.prices) = MaxLen
    /\ \A l \in ResultLists : Len(l) = MaxLen

(***************************************************************************)
(* C2: for a numeric series and a window p <= len(series), sma, ema and    *)
(* each band of bbands are null at the first p - 1 entries and not null at *)
(* the p-th; rsi is null at the first p entries and not null at the next   *)
(* one, when there is one.  (Entries are counted from 1 here.)             *)
(***************************************************************************)
\* l is null on 1..n and, when it has an entry n + 1, not null there
WarmUp(l, n) ==
    /\ \A i \in 1..n : i <= Len(l) => l[i].null
    /\ n < Len(l) => ~l[n + 1].null

C2_NullPrefix ==
    (/\ Returned
     /\ call.fn \in SinglePeriodFns
     /\ NumericSeries(call.prices)
     /\ Window(call.period, call.prices))
    => \A l \in ResultLists :
          WarmUp(l, IF call.fn = "rsi" THEN IntOf(call.period) ELSE IntOf(call.period) - 1)

(***************************************************************************)
(* C3: for a numeric series and a window p <= len(series), the entry i of  *)
(* sma(series, p), for every i >= p, is the arithmetic mean of the p       *)
(* prices ending at i, and the entries before p are null; so               *)
(* sma([1..10], 5) is null four times, then 3.0, and ends with 8.0.        *)
(***************************************************************************)
RECURSIVE SumTwice(_, _, _)
SumTwice(items, lo, hi) ==
    IF lo > hi THEN 0 ELSE items[lo].twice + SumTwice(items, lo + 1, hi)

\* x / Scale = (items[i-p+1] + ... + items[i]) / p
IsMean(e, items, p, i) ==
    /\ ~e.null
    /\ e.x * p * 2 = Scale * SumTwice(items, i - p + 1, i)

C3_SmaIsMean ==
    (/\ Returned
     /\ call.fn = "sma"
     /\ NumericSeries(call.prices)
     /\ Window(call.period, call.prices))
    => LET l == outcome.value.list
           p == IntOf(call.period)
       IN /\ \A i \in 1..(p - 1) : l[i].null
          /\ \A i \in p..Len(l) : IsMean(l[i], call.prices.items, p, i)

(***************************************************************************)
(* C4: macd raises ValueError whenever fast >= slow, whatever the series   *)
(* and the signal period, and does not call the backend then.              *)
(***************************************************************************)
C4_FastNotBelowSlow ==
    (/\ Done
     /\ call.fn = "macd"
     /\ call.fast.twice >= call.slow.twice)
    => /\ outcome.kind = "ValueError"
       /\ ~BackendInvoked

(***************************************************************************)
(* C5: rsi, ema, sma and bbands raise ValueError whenever the period is    *)
(* greater than len(prices), and a period equal to len(prices) is          *)
(* accepted: the call returns.                                             *)
(***************************************************************************)
PositiveDevs ==
    call.fn = "bbands" => call.upper_dev.twice > 0 /\ call.lower_dev.twice > 0

C5_PeriodAgainstLength ==
    (Done /\ call.fn \in SinglePeriodFns)
    => /\ call.period.twice > 2 * PyLen(call.prices) => outcome.kind = "ValueError"
       /\ (/\ NumericSeries(call.prices)
           /\ call.period = PyInt(PyLen(call.prices))
           /\ PositiveDevs)
          => outcome.kind = "return"

\* sma([1, 3, 3], 4) is refused for its period
C5_Witness ==
    /\ InvalidInput
    /\ call.fn = "sma"
    /\ NumericSeries(call.prices)
    /\ PyLen(call.prices) = MaxLen
    /\ call.period = PyInt(MaxLen + 1)
    /\ outcome.steps = <<"_validate_prices", "_validate_period", "raise">>

(***************************************************************************)
(* C6: every indicator raises ValueError when the price series is not a    *)
(* list, is empty, or has an element that is not a number (None, a string, *)
(* a boolean): only a non-empty list of numbers is accepted.               *)
(***************************************************************************)
C6_SeriesValidated ==
    (Done /\ ~NumericSeries(call.prices)) => outcome.kind = "ValueError"

(***************************************************************************)
(* C7: a period that is not a positive integer (zero, negative, or a       *)
(* positive non-integer such as 2.5) is refused with ValueError by rsi,    *)
(* ema, sma, bbands and for each of macd's fast, slow and signal.          *)
(***************************************************************************)
PeriodsOfCall ==
    IF call.fn = "macd" THEN {call.fast, call.slow, call.signal} ELSE {call.period}

C7_PeriodPositiveInteger ==
    (Done /\ \E q \in PeriodsOfCall : ~PositiveInteger(q)) => outcome.kind = "ValueError"

(***************************************************************************)
(* C8: bbands raises ValueError whenever the upper deviation multiplier is *)
(* <= 0 or the lower one is <= 0, each on its own, whatever the series and *)
(* the period; the backend is not called.                                  *)
(***************************************************************************)
C8_DevsPositive ==
    (/\ Done
     /\ call.fn = "bbands"
     /\ (call.upper_dev.twice <= 0 \/ call.lower_dev.twice <= 0))
    => /\ outcome.kind = "ValueError"
       /\ ~BackendInvoked

\* a valid series and period, a positive upper multiplier, and a lower multiplier of 0.0
C8_Witness ==
    /\ InvalidInput
    /\ call.fn = "bbands"
    /\ NumericSeries(call.prices)
    /\ Window(call.period, call.prices)
    /\ call.upper_dev.twice > 0
    /\ call.lower_dev.twice = 0
    /\ outcome.steps = <<"_validate_prices", "_validate_period", "_validate_positive",
                         "_validate_positive", "raise">>

(***************************************************************************)
(* C9: ValueError is the only failure: a call whose input meets every      *)
(* constraint (numeric non-empty series, positive integer periods within   *)
(* the series length, fast < slow for macd, positive multipliers) returns, *)
(* and a call whose input breaks a constraint raises ValueError.           *)
(***************************************************************************)
ValidInput ==
    /\ NumericSeries(call.prices)
    /\ IF call.fn = "macd"
       THEN /\ PositiveInteger(call.fast)
            /\ PositiveInteger(call.slow)
            /\ PositiveInteger(call.signal)
            /\ call.fast.twice < call.slow.twice
            /\ call.slow.twice <= 2 * PyLen(call.prices)
       ELSE Window(call.period, call.prices)
    /\ PositiveDevs

C9_OnlyInvalidInput ==
    Done => IF ValidInput THEN outcome.kind = "return" ELSE outcome.kind = "ValueError"

(***************************************************************************)
(* C10: a request with no Authorization header, with one that does not     *)
(* start with "Bearer ", or with a token that is not the configured        *)
(* secret is answered 401 {"error": "Unauthorized"}, the same in the three *)
(* cases, and the downstream handler is not invoked for it.                *)
(***************************************************************************)
\* the token the header carries: what follows "Bearer "
PresentedToken == SubSeq(auth.s, Len(Bearer) + 1, Len(auth.s))

Unauthenticated ==
    \/ ~auth.present
    \/ ~startswith(auth.s, Bearer)
    \/ PresentedToken # api_key

C10_Refused ==
    (mode = "http" /\ pc # "dispatch" /\ Unauthenticated)
    => /\ response = _unauthorized
       /\ ~forwarded
       /\ outcome = NotCalled

(***************************************************************************)
(* C11: a request goes to the downstream handler if and only if its        *)
(* Authorization header is "Bearer " followed by a token equal to the      *)
(* configured secret, character for character: the presented token is not  *)
(* normalised, so one that differs from the secret only by surrounding     *)
(* whitespace is refused.                                                  *)
(***************************************************************************)
ExactBearer ==
    /\ auth.present
    /\ startswith(auth.s, Bearer)
    /\ PresentedToken = api_key

C11_ExactEquality ==
    (mode = "http" /\ pc # "dispatch") => (forwarded <=> ExactBearer)

(***************************************************************************)
(* C12: the service never serves without a configured secret.  With no     *)
(* api_key argument and MCP_API_KEY unset or empty, constructing the       *)
(* middleware raises RuntimeError (as get_api_key_or_raise does) and no    *)
(* request is dispatched; whenever a request is dispatched, forwarded or   *)
(* answered, the key is a non-empty string.                                *)
(***************************************************************************)
NoSecret == init_raises(or_getenv(config.api_key, config.MCP_API_KEY))
Serving == pc \in {"dispatch", "tool", "done"} \/ forwarded \/ response # NoResponse

C12_NeverServesWithoutSecret ==
    /\ Serving => api_key # <<>> /\ ~NoSecret
    /\ (NoSecret /\ pc # "construct") => pc = "RuntimeError"
    /\ (pc # "construct" /\ ~config.api_key.present) =>
           /\ pc = "RuntimeError" <=> Raised(get_api_key_or_raise(config.MCP_API_KEY).exc)
           /\ pc # "RuntimeError" => api_key = get_api_key_or_raise(config.MCP_API_KEY).key

C12_Witness ==
    /\ pc = "RuntimeError"
    /\ config = FromEnv(Str(<<>>))
    /\ auth = Header(Bearer)
    /\ ~forwarded
    /\ response = NoResponse

(***************************************************************************)
(* C13: for every valid input, macd returns a mapping whose key set is     *)
(* exactly {macd, signal, histogram}.                                      *)
(***************************************************************************)
MacdKeys == {"macd", "signal", "histogram"}

C13_MacdKeys ==
    (Returned /\ call.fn = "macd") =>
        /\ outcome.value.type = "dict"
        /\ DOMAIN outcome.value.dict = MacdKeys

(***************************************************************************)
(* C14: for every macd call that returns, at every index where the macd    *)
(* line and the signal line are both non-null, the histogram entry is      *)
(* non-null and equals macd - signal.  The three lines are taken under the *)
(* keys the running package gives them.                                    *)
(***************************************************************************)
MacdLine == outcome.value.dict.macd
SignalLine ==
    IF variant = "app" THEN outcome.value.dict.macdsignal ELSE outcome.value.dict.signal
HistogramLine ==
    IF variant = "app" THEN outcome.value.dict.macdhist ELSE outcome.value.dict.hist

C14_HistogramIsDifference ==
    (Returned /\ call.fn = "macd") =>
        \A i \in DOMAIN MacdLine :
            (~MacdLine[i].null /\ ~SignalLine[i].null) =>
                /\ i \in DOMAIN HistogramLine
                /\ ~HistogramLine[i].null
                /\ HistogramLine[i].x = MacdLine[i].x - SignalLine[i].x

C14_Witness ==
    /\ Returned
    /\ call.fn = "macd"
    /\ ValidInput
    /\ \E i \in DOMAIN MacdLine :
           /\ ~MacdLine[i].null
           /\ ~SignalLine[i].null
           /\ MacdLine[i].x # 0
           /\ HistogramLine[i].x # 0
           /\ HistogramLine[i].x # MacdLine[i].x

(***************************************************************************)
(* C15: for every bbands call with positive multipliers that returns,      *)
(* lower <= middle <= upper at every index where the three are non-null,   *)
(* and the three bands are null at exactly the same indices.  The bands    *)
(* are taken under the keys the running package gives them.                *)
(***************************************************************************)
UpperBand ==
    IF variant = "app" THEN outcome.value.dict.upperband ELSE outcome.value.dict.upper
MiddleBand ==
    IF variant = "app" THEN outcome.value.dict.middleband ELSE outcome.value.dict.middle
LowerBand ==
    IF variant = "app" THEN outcome.value.dict.lowerband ELSE outcome.value.dict.lower

C15_BandsOrdered ==
    (Returned /\ call.fn = "bbands") =>
        /\ DOMAIN UpperBand = DOMAIN MiddleBand
        /\ DOMAIN LowerBand = DOMAIN MiddleBand
        /\ \A i \in DOMAIN MiddleBand :
               /\ UpperBand[i].null <=> MiddleBand[i].null
               /\ LowerBand[i].null <=> MiddleBand[i].null
               /\ ~MiddleBand[i].null =>
                      /\ LowerBand[i].x <= MiddleBand[i].x
                      /\ MiddleBand[i].x <= UpperBand[i].x

C15_Witness ==
    /\ Returned
    /\ call.fn = "bbands"
    /\ PositiveDevs
    /\ \E i, j \in DOMAIN MiddleBand :
           /\ MiddleBand[i].null
           /\ ~MiddleBand[j].null
           /\ LowerBand[j].x < MiddleBand[j].x
           /\ MiddleBand[j].x < UpperBand[j].x

(***************************************************************************)
(* C16: the indicator functions are stateless.  Among the calls made one   *)
(* after another in one process, two calls with identical arguments have   *)
(* identical outcomes (the same returned value, or the same exception),    *)
(* whatever calls were made before or between them.                        *)
(***************************************************************************)
\* the completed calls, oldest first
History ==
    IF pc = "done" THEN Append(log, [call |-> call, outcome |-> outcome]) ELSE log

SlowExceedsLength == call.slow.twice > 2 * PyLen(call.prices)

C17_OnlySlowBounded ==
    (Done /\ call.fn = "macd") =>
        /\ SlowExceedsLength => outcome.kind = "ValueError"
        /\ ValidInput => outcome.kind = "return"

(***************************************************************************)
(* C18: every indicator call runs validate -> delegate -> convert ->       *)
(* return.  The backend is invoked at most once, and only after every      *)
(* validation has passed; when a validation fails the backend is not       *)
(* invoked and nothing is returned; in a returned list every NaN of the    *)
(* backend's array is null at the same index and every other value is      *)
(* unchanged.                                                              *)
(***************************************************************************)
BackendSteps == {"talib.RSI", "talib.MACD", "talib.EMA", "talib.SMA", "talib.BBANDS"}
ValidationSteps == {"_validate_prices", "_validate_period", "_validate_positive", "fast >= slow"}

BackendAt == {i \in DOMAIN outcome.steps : outcome.steps[i] \in BackendSteps}

\* the validation steps the function has, in order, for this call
ValidationsOf ==
    IF call.fn = "macd"
    THEN IF variant = "app"
         THEN <<"_validate_prices", "_validate_positive", "_validate_positive",
                "_validate_positive", "fast >= slow", "_validate_period">>
         ELSE <<"_validate_prices", "_validate_positive", "_validate_positive",
                "_validate_positive">>
    ELSE IF call.fn = "bbands"
    THEN <<"_validate_prices", "_validate_period", "_validate_positive", "_validate_positive">>
    ELSE <<"_validate_prices", "_validate_period">>

\* the backend function the call delegates to
BackendOf ==
    IF call.fn = "rsi" THEN "talib.RSI"
    ELSE IF call.fn = "ema" THEN "talib.EMA"
    ELSE IF call.fn = "sma" THEN "talib.SMA"
    ELSE IF call.fn = "macd" THEN "talib.MACD"
    ELSE "talib.BBANDS"

\* what the backend of the running package returns for this call
BackendArrays ==
    LET a == np_array(call.prices)
        app == variant = "app"
    IN IF call.fn = "rsi"
       THEN (IF app THEN MockTALib_RSI(a, call.period) ELSE talib_RSI(a, call.period)).out
       ELSE IF call.fn = "ema"
       THEN (IF app THEN MockTALib_EMA(a, call.period) ELSE talib_EMA(a, call.period)).out
       ELSE IF call.fn = "sma"
       THEN (IF app THEN MockTALib_SMA(a, call.period) ELSE talib_SMA(a, call.period)).out
       ELSE IF call.fn = "macd"
       THEN (IF app THEN MockTALib_MACD(a, call.fast, call.slow, call.signal)
             ELSE talib_MACD(a, call.fast, call.slow, call.signal)).out
       ELSE (IF app THEN MockTALib_BBANDS(a, call.period, call.upper_dev, call.lower_dev)
             ELSE talib_BBANDS(a, call.period, call.upper_dev, call.lower_dev)).out

\* lst is arr with null for NaN and every other value kept
Converted(arr, lst) ==
    /\ DOMAIN lst = DOMAIN arr
    /\ \A i \in DOMAIN arr :
           /\ lst[i].null <=> arr[i].nan
           /\ ~arr[i].nan => lst[i].x = arr[i].x

C18_Pipeline ==
    Done =>
        /\ Cardinality(BackendAt) <= 1
        /\ \A i \in BackendAt :
               /\ SubSeq(outcome.steps, 1, i - 1) = ValidationsOf
               /\ outcome.kind # "ValueError"
        /\ outcome.kind = "ValueError" =>
               /\ BackendAt = {}
               /\ outcome.value = NoValue
               /\ outcome.steps[Len(outcome.steps)] = "raise"
               /\ \A i \in 1..(Len(outcome.steps) - 1) : outcome.steps[i] \in ValidationSteps
        /\ outcome.kind # "return" => outcome.value = NoValue
        /\ outcome.kind = "return" =>
               /\ outcome.steps = ValidationsOf \o <<BackendOf, "_to_list", "return">>
               /\ \A l \in ResultLists : \E k \in DOMAIN BackendArrays :
                      Converted(BackendArrays[k], l)

C18_Witness ==
    /\ Returned
    /\ variant = "talib_mcp_server"
    /\ call.fn = "ema"
    /\ outcome.steps = <<"_validate_prices", "_validate_period", "talib.EMA", "_to_list", "return">>
    /\ \E i, j \in DOMAIN outcome.value.list :
           /\ outcome.value.list[i].null
           /\ ~outcome.value.list[j].null
           /\ outcome.value.list[j].x # 0

(***************************************************************************)
(* C19: under every interleaving of concurrent requests, the outcome of    *)
(* each request (401, or forwarded downstream) depends only on its own     *)
(* Authorization header and on the secret fixed at construction; dispatch  *)
(* never changes the secret.                                               *)
(***************************************************************************)
Decided(i) == reqs[i].pc # "dispatch"

C19_OwnHeaderAndSecretOnly ==
    /\ api_key = config.MCP_API_KEY.s
    /\ \A i \in DOMAIN reqs :
           Decided(i) =>
               /\ reqs[i].forwarded <=> passes(reqs[i].auth, config.MCP_API_KEY.s)
               /\ ~reqs[i].forwarded =>
                      reqs[i].pc = "done" /\ reqs[i].response = _unauthorized
               /\ reqs[i].response = FromCallNext => reqs[i].forwarded
    /\ \A i, j \in DOMAIN reqs :
           (Decided(i) /\ Decided(j) /\ reqs[i].auth = reqs[j].auth) =>
               reqs[i].forwarded = reqs[j].forwarded

C19_Witness ==
    /\ reqs[1].pc = "call_next"
    /\ reqs[1].forwarded
    /\ reqs[2].pc = "done"
    /\ reqs[2].response = _unauthorized
    /\ reqs[2].auth.present
    /\ reqs[2].auth # reqs[1].auth

=============================================================================
